---- MODULE Spec2Model ----
(***************************************************************************)
(* Model of the mortgage payoff calculator's scheduling engine             *)
(* (MortgageCalculator: calculateMonthlyPayment, generateOriginalSchedule, *)
(* generateAcceleratedSchedule).                                           *)
(*                                                                         *)
(* Numbers.  The program computes in IEEE-754 doubles.  Currency amounts   *)
(* are modelled as integers counting 1/Unit of a currency unit, every      *)
(* product-then-quotient being rounded down to a whole unit; the power     *)
(* (1 + r)^n of the annuity formula is carried at the finer scale          *)
(* PowScale.  A double has a 53-bit significand, so for (1 + r)^n >= 2^53  *)
(* the program's "pow - 1" is pow itself; the model marks such a power as  *)
(* Absorbed.  The loans of the model have either (1 + r)^n < 2 or          *)
(* (1 + r)^n a power of two >= 2^53, where the double result is exact.     *)
(*                                                                         *)
(* Dates.  A Date object is modelled by its local day number (days since   *)
(* 1970-01-01 in the local time zone); the time of day is the same for     *)
(* every Date the engine builds and is left out.  new Date("YYYY-MM-01")   *)
(* is midnight UTC (ECMAScript parses the date-only form as UTC), which in *)
(* a zone west of Greenwich is the evening of the day before, and          *)
(* getMonth, getFullYear, getDate, setMonth, setDate work on local time.   *)
(* tzWest tells whether the host's zone is west of Greenwich.              *)
(*                                                                         *)
(* The page.  The form, the application state, the share URL and the       *)
(* stored data carry amounts in cents and the rate in thousandths of a     *)
(* percent (the form keeps two and three decimals); EngineLoan and         *)
(* EngineOptions turn them into the engine's numbers.  NaN, null and the   *)
(* empty string are values of their own.                                   *)
(***************************************************************************)
EXTENDS Integers, Sequences, FiniteSets, TLC

VARIABLES loanData, accelerationOptions, tzWest, op, pc, monthlyPayment,
          balance, cumulativeInterest, paymentNumber, schedule, dayCounter,
          lumpSumApplied, result, calls, savingsArgs, savings,
          state, elements, timers, location, localStorage, outcome

\* the variables of the page: the application state, the form, the pending
\* timer callbacks, the query of the URL, the browser's storage and what the
\* last handler returned or did
appVars == <<state, elements, timers, location, localStorage, outcome>>

vars == <<loanData, accelerationOptions, tzWest, op, pc, monthlyPayment,
          balance, cumulativeInterest, paymentNumber, schedule, dayCounter,
          lumpSumApplied, result, calls, savingsArgs, savings, appVars>>

-----------------------------------------------------------------------------
(* Arithmetic                                                              *)

Unit == 10 ^ 5

PowScale == 10 ^ 9

Absorbed == 0 - 1

\* the loop guards' 0.01
Epsilon == Unit \div 100

Max(a, b) == IF a >= b THEN a ELSE b

Min(a, b) == IF a <= b THEN a ELSE b

Abs(a) == IF a >= 0 THEN a ELSE 0 - a

\* <<q, r>> with a * b = q * c + r and 0 <= r < c, for a, b >= 0 and c > 0,
\* computed by doubling so that no intermediate exceeds 3 * c
RECURSIVE MulDivRem(_, _, _)
MulDivRem(a, b, c) ==
    IF b = 0 THEN <<0, 0>>
    ELSE LET h  == MulDivRem(a, b \div 2, c)
             qa == IF b % 2 = 1 THEN a \div c ELSE 0
             ra == IF b % 2 = 1 THEN a % c ELSE 0
             tr == 2 * h[2] + ra
         IN  <<2 * h[1] + qa + (tr \div c), tr % c>>

\* floor(a * b / c): the double product and quotient a * b / c
MulDiv(a, b, c) == MulDivRem(a, b, c)[1]

-----------------------------------------------------------------------------
(* Dates                                                                   *)

\* day number of the civil date y-m-d, m in 1..12 (ECMAScript MakeDay)
DaysFromCivil(y, m, d) ==
    LET yy  == IF m <= 2 THEN y - 1 ELSE y
        era == yy \div 400
        yoe == yy - era * 400
        mp  == IF m > 2 THEN m - 3 ELSE m + 9
        doy == (153 * mp + 2) \div 5 + d - 1
        doe == yoe * 365 + yoe \div 4 - yoe \div 100 + doy
    IN  era * 146097 + doe - 719468

\* civil date [y, m, d] of a day number, m in 1..12
CivilFromDays(z) ==
    LET zz  == z + 719468
        era == zz \div 146097
        doe == zz - era * 146097
        yoe == (doe - doe \div 1460 + doe \div 36524 - doe \div 146096) \div 365
        doy == doe - (365 * yoe + yoe \div 4 - yoe \div 100)
        mp  == (5 * doy + 2) \div 153
        d   == doy - (153 * mp + 2) \div 5 + 1
        m   == IF mp < 10 THEN mp + 3 ELSE mp - 9
        y   == yoe + era * 400 + (IF m <= 2 THEN 1 ELSE 0)
    IN  [y |-> y, m |-> m, d |-> d]

\* Date.prototype.getFullYear, getMonth (0..11), getDate, in local time
GetFullYear(date) == CivilFromDays(date).y

GetMonth(date) == CivilFromDays(date).m - 1

GetDate(date) == CivilFromDays(date).d

\* Date.prototype.setMonth(mo): the day of the month is kept and overflows
\* into the following month when the target month is shorter
SetMonth(date, mo) ==
    LET c  == CivilFromDays(date)
        ym == c.y * 12 + mo
    IN  DaysFromCivil(ym \div 12, (ym % 12) + 1, 1) + c.d - 1

\* Date.prototype.setDate(getDate() + days)
AddDays(date, days) == date + days

\* new Date(str + '-01') for a "YYYY-MM" string str = [y, m]: midnight UTC
\* of the first of the month, seen in local time
NewDate(str, west) ==
    DaysFromCivil(str.y, str.m, 1) - (IF west THEN 1 ELSE 0)

\* formatDate: "YYYY-MM" of the local year and month (month index + 1)
formatDate(date) == [y |-> GetFullYear(date), m |-> GetMonth(date) + 1]

\* order of two "YYYY-MM" strings as year-months
YearMonth(str) == str.y * 12 + (str.m - 1)

-----------------------------------------------------------------------------
(* calculateMonthlyPayment                                                 *)

\* Math.pow(1 + monthlyRate, k) at scale PowScale, Absorbed once it is
\* beyond the scale of the model (for the loans of the model: >= 2^53)
RECURSIVE Pow(_, _)
Pow(annualRate, k) ==
    IF k = 0 THEN PowScale
    ELSE LET x == Pow(annualRate, k - 1)
         IN  IF x = Absorbed \/ x > MulDiv(2 * PowScale, 1200, 1200 + annualRate)
             THEN Absorbed
             ELSE x + MulDiv(x, annualRate, 1200)

\* the payment of a loan without interest: principal / numPayments
ZeroRatePaymentPerYear(principal, termYears) == principal \div termYears

ZeroRatePayment(principal, termYears) == principal \div (termYears * 12)

calculateMonthlyPayment(principal, annualRate, termYears) ==
    IF annualRate = 0 THEN ZeroRatePayment(principal, termYears)
    ELSE LET numPayments == termYears * 12
             pow         == Pow(annualRate, numPayments)
         IN  IF pow = Absorbed
             THEN MulDiv(principal, annualRate, 1200)
             ELSE MulDiv(principal, MulDiv(pow, annualRate, 1200), pow - PowScale)

-----------------------------------------------------------------------------
(* The loop state of one schedule generation and its payment records       *)

NoDate == [y |-> 0, m |-> 0]

Null == 0 - 1

\* the local variables of a generator when its loop starts
LoopStartKeepingLumpSumApplied(principal) ==
    [balance |-> principal, cumulativeInterest |-> 0, paymentNumber |-> 0,
     schedule |-> <<>>, dayCounter |-> 0, lumpSumApplied |-> lumpSumApplied]

LoopStart(principal) ==
    [balance |-> principal, cumulativeInterest |-> 0, paymentNumber |-> 0,
     schedule |-> <<>>, dayCounter |-> 0, lumpSumApplied |-> FALSE]

\* "Handle final payment": the principal paid never exceeds the balance
CapPrincipalNoCap(principalPayment, bal) == principalPayment

CapPrincipal(principalPayment, bal) ==
    IF principalPayment > bal THEN bal ELSE principalPayment

\* "Apply extra payment to principal"
ApplyExtraSubtracted(principalPayment, extraPayment) ==
    Max(0, principalPayment - extraPayment)

ApplyExtra(principalPayment, extraPayment) == principalPayment + extraPayment

\* the record's principal field in the accelerated schedules
RecordedPrincipalWithExtra(principalPayment, extraPayment) == principalPayment

RecordedPrincipal(principalPayment, extraPayment) ==
    principalPayment - extraPayment

\* "cumulativeInterest += interest"
AccumulateInterestLastOnly(cum, interest) == interest

AccumulateInterest(cum, interest) == cum + interest

PaymentRecord(num, date, pay, prin, int, extra, bal, cum) ==
    [paymentNumber |-> num, date |-> formatDate(date), dateObj |-> date,
     payment |-> pay, principal |-> prin, interest |-> int,
     extraPayment |-> extra, balance |-> Max(0, bal),
     cumulativeInterest |-> cum]

-----------------------------------------------------------------------------
(* generateOriginalSchedule                                                *)

OriginalCondCapOnly(bal, num, termYears) == num < termYears * 12

OriginalCond(bal, num, termYears) == bal > Epsilon /\ num < termYears * 12

OriginalBody(ln, west, M, st) ==
    LET num              == st.paymentNumber + 1
        start            == NewDate(ln.startDate, west)
        paymentDate      == SetMonth(start, GetMonth(start) + num - 1)
        interestPayment  == MulDiv(st.balance, ln.annualRate, 1200)
        principalPayment == CapPrincipal(M - interestPayment, st.balance)
        actualPayment    == principalPayment + interestPayment
        bal              == st.balance - principalPayment
        cum              == AccumulateInterest(st.cumulativeInterest, interestPayment)
    IN  [st EXCEPT !.paymentNumber = num, !.balance = bal,
                   !.cumulativeInterest = cum,
                   !.schedule = Append(@, PaymentRecord(num, paymentDate,
                       actualPayment, principalPayment, interestPayment, 0,
                       bal, cum))]

\* the object returned by both generators
ScheduleResult(ln, west, M, st) ==
    [schedule |-> st.schedule, monthlyPayment |-> M,
     totalInterest |-> st.cumulativeInterest,
     totalPayments |-> st.paymentNumber,
     payoffDate |-> IF st.schedule # <<>>
                    THEN st.schedule[Len(st.schedule)].date
                    ELSE formatDate(NewDate(ln.startDate, west))]

RECURSIVE OriginalLoop(_, _, _, _)
OriginalLoop(ln, west, M, st) ==
    IF OriginalCond(st.balance, st.paymentNumber, ln.termYears)
    THEN OriginalLoop(ln, west, M, OriginalBody(ln, west, M, st))
    ELSE st

generateOriginalSchedule(ln, west) ==
    LET M == calculateMonthlyPayment(ln.principal, ln.annualRate, ln.termYears)
    IN  ScheduleResult(ln, west, M, OriginalLoop(ln, west, M, LoopStart(ln.principal)))

-----------------------------------------------------------------------------
(* generateAcceleratedSchedule                                             *)

maxPaymentsFourfold(termYears) == termYears * 12 * 4

maxPayments(termYears) == termYears * 12 * 2

lumpSumDateObj(opts, west) ==
    IF opts.lumpSum > 0 /\ opts.lumpSumDate # NoDate
    THEN NewDate(opts.lumpSumDate, west)
    ELSE Null

BiweeklyCond(bal, num, termYears) ==
    bal > Epsilon /\ num < maxPayments(termYears) * 2

biweeklyPayment(M) == M \div 2

\* "dayCounter += 14; // Every 2 weeks"
NextDayCounterFourWeeks(days) == days + 28

NextDayCounter(days) == days + 14

\* extraMonthly / 2.17
BiweeklyExtraMonthly(extraMonthly) == (extraMonthly * 100) \div 217

\* the bi-weekly annual extra fires in the first period of the month only
BiweeklyAnnualFires(opts, paymentDate, sched) ==
    /\ opts.annualExtra > 0
    /\ GetMonth(paymentDate) = opts.annualExtraMonth
    /\ LET lastPayment == sched[Len(sched)]
       IN  \/ sched = <<>>
           \/ GetMonth(lastPayment.dateObj) # opts.annualExtraMonth
           \/ GetFullYear(lastPayment.dateObj) # GetFullYear(paymentDate)

BiweeklyBody(ln, opts, west, M, st) ==
    LET num            == st.paymentNumber + 1
        start          == NewDate(ln.startDate, west)
        paymentDate    == AddDays(start, st.dayCounter)
        periodInterest == MulDiv(st.balance, ln.annualRate * 14, 36500)
        lumpDate       == lumpSumDateObj(opts, west)
        lumpFires      == ~st.lumpSumApplied /\ lumpDate # Null
                          /\ paymentDate >= lumpDate
        extraPayment   ==
            (IF opts.extraMonthly > 0
             THEN BiweeklyExtraMonthly(opts.extraMonthly) ELSE 0)
            + (IF lumpFires THEN opts.lumpSum ELSE 0)
            + (IF BiweeklyAnnualFires(opts, paymentDate, st.schedule)
               THEN opts.annualExtra ELSE 0)
        uncapped       == ApplyExtra(biweeklyPayment(M) - periodInterest,
                                     extraPayment)
        principalPayment == CapPrincipal(uncapped, st.balance)
        periodPayment  == IF uncapped > st.balance
                          THEN principalPayment + periodInterest
                          ELSE biweeklyPayment(M)
        bal            == st.balance - principalPayment
        cum            == AccumulateInterest(st.cumulativeInterest, periodInterest)
    IN  [balance |-> bal, cumulativeInterest |-> cum, paymentNumber |-> num,
         schedule |-> Append(st.schedule, PaymentRecord(num, paymentDate,
             periodPayment, RecordedPrincipal(principalPayment, extraPayment),
             periodInterest, extraPayment, bal, cum)),
         dayCounter |-> NextDayCounter(st.dayCounter),
         lumpSumApplied |-> st.lumpSumApplied \/ lumpFires]

MonthlyCond(bal, num, termYears) ==
    bal > Epsilon /\ num < maxPayments(termYears)

MonthlyBody(ln, opts, west, M, st) ==
    LET num             == st.paymentNumber + 1
        start           == NewDate(ln.startDate, west)
        paymentDate     == SetMonth(start, GetMonth(start) + num - 1)
        interestPayment == MulDiv(st.balance, ln.annualRate, 1200)
        lumpDate        == lumpSumDateObj(opts, west)
        paymentMonth    == GetFullYear(paymentDate) * 12 + GetMonth(paymentDate)
        lumpSumMonth    == GetFullYear(lumpDate) * 12 + GetMonth(lumpDate)
        lumpFires       == ~st.lumpSumApplied /\ lumpDate # Null
                           /\ paymentMonth >= lumpSumMonth
        extraPayment    ==
            (IF opts.extraMonthly > 0 THEN opts.extraMonthly ELSE 0)
            + (IF lumpFires THEN opts.lumpSum ELSE 0)
            + (IF opts.annualExtra > 0
                  /\ GetMonth(paymentDate) = opts.annualExtraMonth
               THEN opts.annualExtra ELSE 0)
        principalPayment == CapPrincipal(ApplyExtra(M - interestPayment,
                                                    extraPayment), st.balance)
        actualPayment   == IF M - extraPayment > st.balance + interestPayment
                           THEN st.balance + interestPayment
                           ELSE M
        bal             == st.balance - principalPayment
        cum             == AccumulateInterest(st.cumulativeInterest, interestPayment)
    IN  [balance |-> bal, cumulativeInterest |-> cum, paymentNumber |-> num,
         schedule |-> Append(st.schedule, PaymentRecord(num, paymentDate,
             actualPayment, RecordedPrincipal(principalPayment, extraPayment),
             interestPayment, extraPayment, bal, cum)),
         dayCounter |-> st.dayCounter,
         lumpSumApplied |-> st.lumpSumApplied \/ lumpFires]

AcceleratedCond(opts, bal, num, termYears) ==
    IF opts.biweekly THEN BiweeklyCond(bal, num, termYears)
    ELSE MonthlyCond(bal, num, termYears)

AcceleratedBody(ln, opts, west, M, st) ==
    IF opts.biweekly THEN BiweeklyBody(ln, opts, west, M, st)
    ELSE MonthlyBody(ln, opts, west, M, st)

RECURSIVE AcceleratedLoop(_, _, _, _, _)

\* "if (balance <= 0.01) break;" ends the loop right after the record
BreakIfPaidOff(ln, opts, west, M, nxt) ==
    IF nxt.balance <= Epsilon THEN nxt
    ELSE AcceleratedLoop(ln, opts, west, M, nxt)

AcceleratedLoop(ln, opts, west, M, st) ==
    IF AcceleratedCond(opts, st.balance, st.paymentNumber, ln.termYears)
    THEN BreakIfPaidOff(ln, opts, west, M,
                        AcceleratedBody(ln, opts, west, M, st))
    ELSE st

generateAcceleratedSchedule(ln, opts, west) ==
    LET M == calculateMonthlyPayment(ln.principal, ln.annualRate, ln.termYears)
    IN  ScheduleResult(ln, west, M,
                       AcceleratedLoop(ln, opts, west, M, LoopStart(ln.principal)))

-----------------------------------------------------------------------------
(* calculateSavings                                                        *)

\* new Date(dateStr + "-01")
parseDate(dateStr, west) == NewDate(dateStr, west)

\* Math.round(timeDiff / (1000 * 60 * 60 * 24 * 30.44)); timeDiff is a whole
\* number of days (both dates are midnights UTC), counted here in days, and
\* Math.round rounds a half upwards
monthsSavedThirtyDays(timeDiff) == (2 * timeDiff + 30) \div 60

monthsSaved(timeDiff) == (200 * timeDiff + 3044) \div 6088

\* Math.floor(monthsSaved / 12)
yearsSaved(months) == months \div 12

\* monthsSaved % 12: the remainder operator of JavaScript truncates, its
\* result has the sign of the dividend
remainingMonths(months) ==
    IF months >= 0 THEN months % 12 ELSE 0 - ((0 - months) % 12)

\* the plural ending of the template literals
PluralAlways(n) == "s"

Plural(n) == IF n # 1 THEN "s" ELSE ""

timeSavedText(years, months) ==
    IF years > 0
    THEN ToString(years) \o " year" \o Plural(years)
         \o (IF months > 0
             THEN ", " \o ToString(months) \o " month" \o Plural(months)
             ELSE "")
    ELSE IF months > 0
    THEN ToString(months) \o " month" \o Plural(months)
    ELSE "No time saved"

\* originalResult.totalInterest - acceleratedResult.totalInterest
interestSavedReversed(originalInterest, acceleratedInterest) ==
    acceleratedInterest - originalInterest

interestSaved(originalInterest, acceleratedInterest) ==
    originalInterest - acceleratedInterest

calculateSavings(originalResult, acceleratedResult, west) ==
    LET originalDate    == parseDate(originalResult.payoffDate, west)
        acceleratedDate == parseDate(acceleratedResult.payoffDate, west)
        timeDiff        == originalDate - acceleratedDate
        months          == monthsSaved(timeDiff)
    IN  [monthsSaved |-> months,
         yearsSaved |-> yearsSaved(months),
         remainingMonths |-> remainingMonths(months),
         timeSavedText |-> timeSavedText(yearsSaved(months),
                                         remainingMonths(months)),
         interestSaved |-> interestSaved(originalResult.totalInterest,
                                         acceleratedResult.totalInterest),
         originalInterest |-> originalResult.totalInterest,
         acceleratedInterest |-> acceleratedResult.totalInterest]

-----------------------------------------------------------------------------
(* Inputs of the model                                                     *)

MaxTerm == 1

Dollars(d) == d * Unit

\* annual rates in percent with (1 + r)^n < 2 for every term of the model
Rates == {0, 6, 12}

\* a loan whose power (1 + 37200/1200)^12 = 2^60 is absorbed: in doubles
\* its payment is exactly its first month's interest
AbsorbingLoans ==
    {[principal |-> Dollars(10), annualRate |-> 37200, termYears |-> t,
      startDate |-> [y |-> 2024, m |-> 1]] : t \in 1..MaxTerm}

\* a loan of five cents: its balance is within Epsilon before the term ends
SmallLoans ==
    {[principal |-> 5 * Epsilon, annualRate |-> 6, termYears |-> t,
      startDate |-> [y |-> 2024, m |-> 1]] : t \in 1..MaxTerm}

\* loans that are paid off when the loop starts: the balance is within
\* Epsilon from the beginning
PaidOffLoans ==
    {[principal |-> p, annualRate |-> r, termYears |-> t,
      startDate |-> [y |-> 2024, m |-> 1]] :
        p \in {Epsilon \div 2, Epsilon}, r \in {0, 6}, t \in 1..MaxTerm}

\* a loan of five cents without interest, and a loan just above Epsilon
\* whose first payment brings the balance within Epsilon
TinyLoans ==
    {[principal |-> 5 * Epsilon, annualRate |-> 0, termYears |-> t,
      startDate |-> [y |-> 2024, m |-> 1]] : t \in 1..MaxTerm}
    \cup {[principal |-> Epsilon + Epsilon \div 20, annualRate |-> 6,
           termYears |-> t, startDate |-> [y |-> 2024, m |-> 1]] :
             t \in 1..MaxTerm}

Loans ==
    {[principal |-> Dollars(p), annualRate |-> r, termYears |-> t,
      startDate |-> [y |-> 2024, m |-> 1]] :
        p \in {300, 1000}, r \in Rates, t \in 1..MaxTerm}
    \cup AbsorbingLoans \cup SmallLoans \cup PaidOffLoans \cup TinyLoans

ExtraMonthlyValues == {0, Dollars(25), Dollars(50)}

LumpSumChoices ==
    {[lumpSum |-> 0, lumpSumDate |-> NoDate]}
    \cup {[lumpSum |-> Dollars(200), lumpSumDate |-> d] :
            d \in {NoDate, [y |-> 2023, m |-> 6], [y |-> 2024, m |-> 2],
                   [y |-> 2024, m |-> 4], [y |-> 2030, m |-> 1]}}

AnnualExtraChoices ==
    {[annualExtra |-> 0, annualExtraMonth |-> 11],
     [annualExtra |-> Dollars(100), annualExtraMonth |-> 2],
     [annualExtra |-> Dollars(100), annualExtraMonth |-> 11]}

NoAcceleration ==
    [extraMonthly |-> 0, biweekly |-> FALSE, lumpSum |-> 0,
     lumpSumDate |-> NoDate, annualExtra |-> 0, annualExtraMonth |-> 11]

AccelerationOptions ==
    {[extraMonthly |-> e, biweekly |-> b, lumpSum |-> l.lumpSum,
      lumpSumDate |-> l.lumpSumDate, annualExtra |-> a.annualExtra,
      annualExtraMonth |-> a.annualExtraMonth] :
        e \in ExtraMonthlyValues, b \in BOOLEAN, l \in LumpSumChoices,
        a \in AnnualExtraChoices}

NoResult == [schedule |-> <<>>]

-----------------------------------------------------------------------------
(* The page: form, application state, URL and storage                      *)

\* null (and undefined)
JsNull == [null |-> TRUE]

\* NaN, the result of parseFloat and parseInt on an empty field
NaN == 0 - 1

\* an amount of the form, in cents
Cents(dollars) == dollars * 100

\* a rate of the form, in thousandths of a percent
Percent(r) == r * 1000

\* "const state = { ... }"
InitialState ==
    [currentStep |-> 1, loanData |-> JsNull, accelerationOptions |-> JsNull,
     originalResult |-> JsNull, acceleratedResult |-> JsNull,
     currentPage |-> 1, showAccelerated |-> TRUE]

\* the form as the document delivers it and form.reset() restores it, with
\* the start date and lump-sum date that setDefaultStartDate selects
EmptyForm ==
    [loanAmount |-> 0, interestRate |-> NaN, loanTerm |-> NaN,
     startDate |-> [y |-> 2024, m |-> 1],
     enableExtraMonthly |-> FALSE, extraMonthly |-> 0, biweekly |-> FALSE,
     enableLumpSum |-> FALSE, lumpSum |-> 0,
     lumpSumDate |-> [y |-> 2025, m |-> 1],
     enableAnnualExtra |-> FALSE, annualExtra |-> 0, annualExtraMonth |-> 11,
     showAccelerated |-> TRUE, chartTab |-> "balance"]

\* a URL without a query
NoParams == [null |-> TRUE]

NoOutcome == [event |-> "none"]

\* the page is not part of the run
PageNotLoaded ==
    /\ state = InitialState
    /\ elements = EmptyForm
    /\ timers = 0
    /\ location = NoParams
    /\ localStorage = JsNull
    /\ outcome = NoOutcome

-----------------------------------------------------------------------------
(* One call of a generator, one loop iteration per step                    *)

LoopState ==
    [balance |-> balance, cumulativeInterest |-> cumulativeInterest,
     paymentNumber |-> paymentNumber, schedule |-> schedule,
     dayCounter |-> dayCounter, lumpSumApplied |-> lumpSumApplied]

SetLoopState(st) ==
    /\ balance' = st.balance
    /\ cumulativeInterest' = st.cumulativeInterest
    /\ paymentNumber' = st.paymentNumber
    /\ schedule' = st.schedule
    /\ dayCounter' = st.dayCounter
    /\ lumpSumApplied' = st.lumpSumApplied

\* a completed call: its arguments and the object it returned
CallRecord(res) ==
    [op |-> op, loanData |-> loanData,
     accelerationOptions |-> accelerationOptions, result |-> res]

NoSavings == [timeSavedText |-> ""]

\* the entry of a generator: the payment and the loop's local variables
Entry(ln) ==
    /\ monthlyPayment' = calculateMonthlyPayment(ln.principal, ln.annualRate,
                                                 ln.termYears)
    /\ SetLoopState(LoopStart(ln.principal))
    /\ pc' = "loop"

Init ==
    /\ loanData \in Loans
    /\ tzWest \in BOOLEAN
    /\ op \in {"original", "accelerated"}
    /\ accelerationOptions \in
         IF op = "original" THEN {NoAcceleration} ELSE AccelerationOptions
    /\ monthlyPayment = calculateMonthlyPayment(loanData.principal,
                            loanData.annualRate, loanData.termYears)
    /\ balance = loanData.principal
    /\ cumulativeInterest = 0
    /\ paymentNumber = 0
    /\ schedule = <<>>
    /\ dayCounter = 0
    /\ lumpSumApplied = FALSE
    /\ pc = "loop"
    /\ result = NoResult
    /\ calls = <<>>
    /\ savingsArgs = <<>>
    /\ savings = NoSavings
    /\ PageNotLoaded

OriginalIteration ==
    /\ op = "original" /\ pc = "loop"
    /\ OriginalCond(balance, paymentNumber, loanData.termYears)
    /\ SetLoopState(OriginalBody(loanData, tzWest, monthlyPayment, LoopState))
    /\ UNCHANGED appVars
    /\ UNCHANGED <<loanData, accelerationOptions, tzWest, op, pc,
                   monthlyPayment, result, calls, savingsArgs, savings>>

OriginalReturn ==
    /\ op = "original" /\ pc = "loop"
    /\ ~OriginalCond(balance, paymentNumber, loanData.termYears)
    /\ result' = ScheduleResult(loanData, tzWest, monthlyPayment, LoopState)
    /\ calls' = Append(calls, CallRecord(result'))
    /\ pc' = "done"
    /\ UNCHANGED appVars
    /\ UNCHANGED <<loanData, accelerationOptions, tzWest, op, monthlyPayment,
                   balance, cumulativeInterest, paymentNumber, schedule,
                   dayCounter, lumpSumApplied, savingsArgs, savings>>

BiweeklyIteration ==
    /\ op = "accelerated" /\ pc = "loop" /\ accelerationOptions.biweekly
    /\ BiweeklyCond(balance, paymentNumber, loanData.termYears)
    /\ LET nxt == BiweeklyBody(loanData, accelerationOptions, tzWest,
                               monthlyPayment, LoopState)
       IN  /\ SetLoopState(nxt)
           /\ pc' = IF nxt.balance <= Epsilon THEN "break" ELSE "loop"
    /\ UNCHANGED appVars
    /\ UNCHANGED <<loanData, accelerationOptions, tzWest, op, monthlyPayment,
                   result, calls, savingsArgs, savings>>

MonthlyIteration ==
    /\ op = "accelerated" /\ pc = "loop" /\ ~accelerationOptions.biweekly
    /\ MonthlyCond(balance, paymentNumber, loanData.termYears)
    /\ LET nxt == MonthlyBody(loanData, accelerationOptions, tzWest,
                              monthlyPayment, LoopState)
       IN  /\ SetLoopState(nxt)
           /\ pc' = IF nxt.balance <= Epsilon THEN "break" ELSE "loop"
    /\ UNCHANGED appVars
    /\ UNCHANGED <<loanData, accelerationOptions, tzWest, op, monthlyPayment,
                   result, calls, savingsArgs, savings>>

AcceleratedReturn ==
    /\ op = "accelerated"
    /\ \/ pc = "break"
       \/ /\ pc = "loop"
          /\ ~AcceleratedCond(accelerationOptions, balance, paymentNumber,
                              loanData.termYears)
    /\ result' = ScheduleResult(loanData, tzWest, monthlyPayment, LoopState)
    /\ calls' = Append(calls, CallRecord(result'))
    /\ pc' = "done"
    /\ UNCHANGED appVars
    /\ UNCHANGED <<loanData, accelerationOptions, tzWest, op, monthlyPayment,
                   balance, cumulativeInterest, paymentNumber, schedule,
                   dayCounter, lumpSumApplied, savingsArgs, savings>>

\* calculateResults: the two schedules of the submitted loan are handed to
\* calculateSavings
calculateResults ==
    /\ op = "accelerated" /\ pc = "done"
    /\ savingsArgs' =
         [originalResult |-> generateOriginalSchedule(loanData, tzWest),
          acceleratedResult |-> result]
    /\ pc' = "savings"
    /\ UNCHANGED appVars
    /\ UNCHANGED <<loanData, accelerationOptions, tzWest, op, monthlyPayment,
                   balance, cumulativeInterest, paymentNumber, schedule,
                   dayCounter, lumpSumApplied, result, calls, savings>>

CalculateSavings ==
    /\ pc = "savings"
    /\ savings' = calculateSavings(savingsArgs.originalResult,
                                   savingsArgs.acceleratedResult, tzWest)
    /\ pc' = "compared"
    /\ UNCHANGED appVars
    /\ UNCHANGED <<loanData, accelerationOptions, tzWest, op, monthlyPayment,
                   balance, cumulativeInterest, paymentNumber, schedule,
                   dayCounter, lumpSumApplied, result, calls, savingsArgs>>

Next ==
    \/ OriginalIteration
    \/ OriginalReturn
    \/ BiweeklyIteration
    \/ MonthlyIteration
    \/ AcceleratedReturn
    \/ calculateResults
    \/ CalculateSavings

Spec == Init /\ [][Next]_vars

-----------------------------------------------------------------------------
(* calculateSavings as a function of any two results                       *)

MaxMonthsApart == 480

\* the year-month k months after ym
AddMonths(ym, k) ==
    LET n == ym.y * 12 + (ym.m - 1) + k
    IN  [y |-> n \div 12, m |-> (n % 12) + 1]

\* payoff year-months: every month of a leap-year cycle and the months up to
\* MaxMonthsApart after it, in both orders
SavingsArguments ==
    LET pairs == {<<AddMonths([y |-> 2024, m |-> 1], b),
                    AddMonths([y |-> 2024, m |-> 1], b + k)>> :
                      b \in 0..47, k \in 0..MaxMonthsApart}
    IN  {[originalResult |->
              [payoffDate |-> p[i], totalInterest |-> Dollars(100)],
          acceleratedResult |->
              [payoffDate |-> p[3 - i], totalInterest |-> Dollars(40)]] :
            p \in pairs, i \in 1..2}

SavingsInit ==
    /\ savingsArgs \in SavingsArguments
    /\ tzWest \in BOOLEAN
    /\ pc = "savings"
    /\ savings = NoSavings
    /\ loanData = [principal |-> 0, annualRate |-> 0, termYears |-> 1,
                   startDate |-> [y |-> 2024, m |-> 1]]
    /\ accelerationOptions = NoAcceleration
    /\ op = "accelerated"
    /\ monthlyPayment = 0
    /\ balance = 0
    /\ cumulativeInterest = 0
    /\ paymentNumber = 0
    /\ schedule = <<>>
    /\ dayCounter = 0
    /\ lumpSumApplied = FALSE
    /\ result = NoResult
    /\ calls = <<>>
    /\ PageNotLoaded

SavingsSpec == SavingsInit /\ [][CalculateSavings]_vars

-----------------------------------------------------------------------------
(* Several calls of the generators, one after the other                    *)

MaxCalls == 3

CallLoans ==
    {[principal |-> Dollars(300), annualRate |-> r, termYears |-> 1,
      startDate |-> [y |-> 2024, m |-> 1]] : r \in {6}}

CallOptions ==
    {[NoAcceleration EXCEPT !.extraMonthly = Dollars(25)],
     [NoAcceleration EXCEPT !.lumpSum = Dollars(200),
                            !.lumpSumDate = [y |-> 2024, m |-> 4]],
     [NoAcceleration EXCEPT !.biweekly = TRUE, !.annualExtra = Dollars(100),
                            !.annualExtraMonth = 2]}

CallsInit ==
    /\ Init
    /\ loanData \in CallLoans
    /\ op = "accelerated" => accelerationOptions \in CallOptions

\* the next call of a generator, with any arguments
Call ==
    /\ pc \in {"done", "compared"}
    /\ Len(calls) < MaxCalls
    /\ \E ln \in CallLoans, o \in {"original", "accelerated"} :
         /\ loanData' = ln
         /\ op' = o
         /\ accelerationOptions' \in
              IF o = "original" THEN {NoAcceleration} ELSE CallOptions
         /\ Entry(ln)
    /\ UNCHANGED appVars
    /\ UNCHANGED <<tzWest, result, calls, savingsArgs, savings>>

CallsNext == Next \/ Call

CallsSpec == CallsInit /\ [][CallsNext]_vars

-----------------------------------------------------------------------------
(* Properties                                                              *)

Last(sched) == sched[Len(sched)]

\* the balance before record i
PreviousBalance(i) ==
    IF i = 1 THEN loanData.principal ELSE schedule[i - 1].balance

RECURSIVE SumPrincipal(_, _)
SumPrincipal(sched, k) ==
    IF k = 0 THEN 0 ELSE SumPrincipal(sched, k - 1) + sched[k].principal

Accelerated == op = "accelerated"

Biweekly == Accelerated /\ accelerationOptions.biweekly

\* the nominal payment of a period
NominalPayment ==
    IF Biweekly THEN biweeklyPayment(monthlyPayment) ELSE monthlyPayment

\* the loop's iteration cap
IterationCap ==
    IF ~Accelerated THEN loanData.termYears * 12
    ELSE IF Biweekly THEN maxPayments(loanData.termYears) * 2
    ELSE maxPayments(loanData.termYears)

CapExhausted == balance > Epsilon /\ paymentNumber >= IterationCap

\* the extra that fires in every period
RecurringExtra ==
    IF accelerationOptions.extraMonthly = 0 THEN 0
    ELSE IF Biweekly THEN BiweeklyExtraMonthly(accelerationOptions.extraMonthly)
    ELSE accelerationOptions.extraMonthly

\* a record's extraPayment contains the lump sum (the lump sum and the annual
\* extra of the model differ, so the parts of an extraPayment are determined)
HasLumpSum(r) ==
    /\ accelerationOptions.lumpSum > 0
    /\ r.extraPayment - RecurringExtra \in
         {accelerationOptions.lumpSum,
          accelerationOptions.lumpSum + accelerationOptions.annualExtra}

\* a record's extraPayment contains the annual extra
HasAnnualExtra(r) ==
    /\ accelerationOptions.annualExtra > 0
    /\ r.extraPayment - RecurringExtra \in
         {accelerationOptions.annualExtra,
          accelerationOptions.lumpSum + accelerationOptions.annualExtra}

ResultFields ==
    {"schedule", "monthlyPayment", "totalInterest", "totalPayments", "payoffDate"}

\* C1: when generateOriginalSchedule has returned, the principal portions of
\* its records sum to the loan principal within 0.01 and the last record's
\* ending balance is zero (within 0.01): the loop ended because the balance
\* was paid, not because paymentNumber reached termYears * 12.
C1_StandardSchedulePaysOff ==
    (op = "original" /\ pc = "done") =>
        /\ Abs(SumPrincipal(schedule, Len(schedule)) - loanData.principal)
             <= Epsilon
        /\ schedule # <<>> => Last(schedule).balance <= Epsilon
        /\ balance <= Epsilon

\* C2: a generator that returns with its iteration cap reached and the
\* balance still above 0.01 does not return an ordinary schedule result.
C2_CapExhaustionIsFailure ==
    (pc = "done" /\ CapExhausted) => DOMAIN result # ResultFields

\* C3: with a lump sum and a lump-sum date, the records whose extraPayment
\* contains the lump sum are exactly: the first record whose period is not
\* before the lump-sum year-month.
C3_LumpSumInFirstPeriodFromDate ==
    (Accelerated /\ accelerationOptions.lumpSum > 0
       /\ accelerationOptions.lumpSumDate # NoDate) =>
        \A i \in 1..Len(schedule) :
            HasLumpSum(schedule[i]) <=>
                /\ YearMonth(schedule[i].date)
                     >= YearMonth(accelerationOptions.lumpSumDate)
                /\ \A j \in 1..(i - 1) :
                       YearMonth(schedule[j].date)
                         < YearMonth(accelerationOptions.lumpSumDate)

\* C4: the annual extra is in at most one record of a calendar year; in
\* monthly mode it is in every record of the annual-extra month, in bi-weekly
\* mode in the first record of that month of a year only.
C4_AnnualExtraOncePerYear ==
    (Accelerated /\ accelerationOptions.annualExtra > 0) =>
        /\ \A i, j \in 1..Len(schedule) :
               (i < j /\ HasAnnualExtra(schedule[i]) /\ HasAnnualExtra(schedule[j]))
                 => schedule[i].date.y # schedule[j].date.y
        /\ \A i \in 1..Len(schedule) :
               HasAnnualExtra(schedule[i]) <=>
                   /\ schedule[i].date.m - 1 = accelerationOptions.annualExtraMonth
                   /\ Biweekly => (i = 1 \/ schedule[i - 1].date # schedule[i].date)

\* C5: no balance is negative; the principal and extra applied in a record
\* never exceed the balance before it, and a record whose base principal
\* plus extras exceed that balance applies exactly the balance, ends at
\* zero and is the last record.
C5_BalanceNeverNegative ==
    /\ balance >= 0
    /\ \A i \in 1..Len(schedule) :
         LET r == schedule[i] IN
           /\ r.balance >= 0
           /\ r.principal + r.extraPayment <= PreviousBalance(i)
           /\ (NominalPayment - r.interest + r.extraPayment > PreviousBalance(i))
                => /\ r.principal + r.extraPayment = PreviousBalance(i)
                   /\ r.balance = 0
                   /\ i = Len(schedule)

\* a finished accelerated schedule whose last record had extras and a base
\* principal plus extras above the remaining balance
C5_Witness ==
    /\ pc = "done" /\ Accelerated /\ Len(schedule) > 1
    /\ Last(schedule).extraPayment > 0
    /\ NominalPayment - Last(schedule).interest + Last(schedule).extraPayment
         > PreviousBalance(Len(schedule))
    /\ Last(schedule).balance = 0

\* C6: every record but the last has an ending balance above 0.01.
C6_NoRecordAfterPayoff ==
    \A i \in 1..(Len(schedule) - 1) : schedule[i].balance > Epsilon

\* a finished schedule of several records that ends paid off before its cap
C6_Witness ==
    /\ pc = "done" /\ Len(schedule) > 1
    /\ Last(schedule).balance <= Epsilon
    /\ paymentNumber < IterationCap

\* C7: in every record the payment is the principal portion plus the
\* interest portion, within rounding.
C7_PaymentIsPrincipalPlusInterest ==
    \A i \in 1..Len(schedule) :
        Abs(schedule[i].payment
              - (schedule[i].principal + schedule[i].interest)) <= Epsilon

\* C8: every record's ending balance is max(0, previous balance - (principal
\* portion + extra applied)).
C8_EndingBalanceAccounting ==
    \A i \in 1..Len(schedule) :
        schedule[i].balance =
            Max(0, PreviousBalance(i)
                     - (schedule[i].principal + schedule[i].extraPayment))

\* an accelerated schedule with an extra in a record that leaves a balance
C8_Witness ==
    /\ Accelerated /\ Len(schedule) > 1
    /\ schedule[1].extraPayment > 0
    /\ schedule[1].balance > 0
    /\ schedule[1].balance < loanData.principal

\* C9: a finished accelerated schedule has no more payments and no more
\* interest than the schedule of the same loan and options with any smaller
\* extraMonthly.
C9_ExtraMonthlyMonotone ==
    (Accelerated /\ pc = "done") =>
        \A e1 \in ExtraMonthlyValues :
            e1 <= accelerationOptions.extraMonthly =>
                LET r1 == generateAcceleratedSchedule(loanData,
                              [accelerationOptions EXCEPT !.extraMonthly = e1],
                              tzWest)
                IN  /\ result.totalPayments <= r1.totalPayments
                    /\ result.totalInterest <= r1.totalInterest

\* a finished bi-weekly schedule with the largest extraMonthly that is
\* strictly shorter and cheaper than the one without
C9_Witness ==
    /\ Biweekly /\ pc = "done"
    /\ accelerationOptions.extraMonthly = Dollars(50)
    /\ LET r1 == generateAcceleratedSchedule(loanData,
                     [accelerationOptions EXCEPT !.extraMonthly = 0], tzWest)
       IN  /\ result.totalPayments < r1.totalPayments
           /\ result.totalInterest < r1.totalInterest

BiweeklyOnly ==
    /\ Biweekly
    /\ accelerationOptions.extraMonthly = 0
    /\ accelerationOptions.lumpSum = 0
    /\ accelerationOptions.annualExtra = 0

\* C10 as stated: bi-weekly with no other strategy returns fewer
\* totalPayments than the monthly schedule of the same loan.
C10_BiweeklyFewerPayments ==
    (BiweeklyOnly /\ pc = "done") =>
        result.totalPayments
          < generateOriginalSchedule(loanData, tzWest).totalPayments

\* C10 (amended): for a loan whose monthly schedule has at least twelve
\* records, bi-weekly with no other strategy returns a payoffDate not later
\* than the monthly schedule's and a totalPayments (a count of 14-day
\* periods) of at most twice the monthly schedule's.
C10_BiweeklyPaysOffNoLater ==
    (BiweeklyOnly /\ pc = "done") =>
        LET o == generateOriginalSchedule(loanData, tzWest)
        IN  o.totalPayments >= 12 =>
                /\ YearMonth(result.payoffDate) <= YearMonth(o.payoffDate)
                /\ result.totalPayments <= 2 * o.totalPayments

\* a finished bi-weekly-only schedule with more payments than the monthly
\* schedule and an earlier payoff month
C10_Witness ==
    /\ BiweeklyOnly /\ pc = "done"
    /\ LET o == generateOriginalSchedule(loanData, tzWest)
       IN  /\ o.totalPayments >= 12
           /\ result.totalPayments > o.totalPayments
           /\ YearMonth(result.payoffDate) < YearMonth(o.payoffDate)

\* calculateSavings has returned for the two schedules of the loan
Compared == pc = "compared"

\* the accelerated schedule of the call is a monthly one with an extra
\* monthly payment on a loan that bears interest
MonthlyWithExtra ==
    /\ Accelerated /\ ~accelerationOptions.biweekly
    /\ loanData.annualRate > 0

SavesInterest ==
    /\ savingsArgs.acceleratedResult.totalPayments
         <= savingsArgs.originalResult.totalPayments
    /\ savingsArgs.acceleratedResult.totalInterest
         < savingsArgs.originalResult.totalInterest
    /\ savings.interestSaved > 0

\* C11: in monthly mode, for every loan with a positive rate and every
\* extraMonthly > 0, the accelerated schedule has no more payments than the
\* standard one and strictly less total interest, and calculateSavings
\* reports interestSaved > 0.
C11_ExtraMonthlySavesInterest ==
    (Compared /\ MonthlyWithExtra /\ accelerationOptions.extraMonthly > 0)
        => SavesInterest

\* C11 (amended): the same for the loans whose standard schedule has at least
\* two records and for an extraMonthly of 0.01 or more.
C11_ExtraMonthlySavesInterestOverTwoPeriods ==
    (/\ Compared /\ MonthlyWithExtra
     /\ accelerationOptions.extraMonthly >= Epsilon
     /\ Len(savingsArgs.originalResult.schedule) >= 2)
        => SavesInterest

C11_Witness ==
    /\ Compared /\ MonthlyWithExtra
    /\ accelerationOptions.extraMonthly >= Epsilon
    /\ accelerationOptions.lumpSum = 0 /\ accelerationOptions.annualExtra = 0
    /\ Len(savingsArgs.originalResult.schedule) >= 2
    /\ savingsArgs.acceleratedResult.totalPayments >= 2
    /\ savings.interestSaved > 0

RECURSIVE SumInterest(_, _)
SumInterest(sched, k) ==
    IF k = 0 THEN 0 ELSE SumInterest(sched, k - 1) + sched[k].interest

\* the cumulativeInterest before record i
PreviousCumulativeInterest(i) ==
    IF i = 1 THEN 0 ELSE schedule[i - 1].cumulativeInterest

\* C12: in every schedule the cumulativeInterest field never decreases from
\* one record to the next, grows only in a record whose interest is
\* positive, and is the sum of the interest fields up to and including the
\* record.
C12_CumulativeInterestIsRunningSum ==
    \A i \in 1..Len(schedule) :
        /\ schedule[i].cumulativeInterest >= PreviousCumulativeInterest(i)
        /\ schedule[i].cumulativeInterest > PreviousCumulativeInterest(i)
             => schedule[i].interest > 0
        /\ schedule[i].cumulativeInterest = SumInterest(schedule, i)

C12_Witness ==
    /\ Biweekly /\ loanData.annualRate > 0
    /\ Len(schedule) >= 3
    /\ schedule[3].interest > 0
    /\ schedule[3].interest < schedule[2].interest
    /\ schedule[3].cumulativeInterest > schedule[2].cumulativeInterest

\* the greatest number of records of the schedule of the call
RecordBound ==
    IF ~Accelerated THEN loanData.termYears * 12
    ELSE IF Biweekly THEN loanData.termYears * 12 * 2 * 2
    ELSE loanData.termYears * 12 * 2

Returned == result # NoResult

\* the guard of the loop of the call lets another iteration start
LoopContinues ==
    /\ pc = "loop"
    /\ IF Accelerated
       THEN AcceleratedCond(accelerationOptions, balance, paymentNumber,
                            loanData.termYears)
       ELSE OriginalCond(balance, paymentNumber, loanData.termYears)

\* C13: every schedule generation terminates, and with a bounded number of
\* records: at most termYears*12 in the standard schedule, termYears*12*2*2
\* in the bi-weekly one (termYears*12*2 in the monthly accelerated one), also
\* for a loan whose payment never reduces the balance.  Every iteration adds
\* one record, the number of records never exceeds the bound, and at the
\* bound the loop is left.
C13_TerminatesWithBoundedRecords ==
    /\ [](/\ Len(schedule) <= RecordBound
          /\ Len(schedule) = RecordBound => ~LoopContinues)
    /\ [][pc = "loop" => \/ pc' # "loop"
                         \/ Len(schedule') = Len(schedule) + 1]_vars

\* a loan whose balance never falls has returned, with as many records as
\* the ceiling allows
C13_Witness ==
    /\ Returned
    /\ balance >= loanData.principal /\ balance > Epsilon
    /\ Len(result.schedule) = RecordBound

\* the options of the call without their lump sum
WithoutLumpSum == [accelerationOptions EXCEPT !.lumpSum = 0]

\* the accelerated schedule of the loan for the options without a lump sum
ResultWithoutLumpSum ==
    generateAcceleratedSchedule(loanData, WithoutLumpSum, tzWest)

\* a lump sum is given without a date, or with a date after the payoff
LumpSumNeverDue ==
    /\ Accelerated /\ accelerationOptions.lumpSum > 0
    /\ \/ accelerationOptions.lumpSumDate = NoDate
       \/ YearMonth(accelerationOptions.lumpSumDate)
            > YearMonth(ResultWithoutLumpSum.payoffDate)

\* C14: when lumpSum > 0 and no lumpSumDate is given, or the date lies after
\* the payoff, the lump sum is in no record and the returned schedule is the
\* one returned for lumpSum = 0 and the same other options.
C14_LumpSumNeverDueIsIgnored ==
    (Returned /\ LumpSumNeverDue)
        => /\ \A i \in 1..Len(result.schedule) :
                ~HasLumpSum(result.schedule[i])
           /\ result = ResultWithoutLumpSum

\* the same, in a host zone at or east of Greenwich or without a date
C14_LumpSumNeverDueIsIgnoredEast ==
    (Returned /\ LumpSumNeverDue
       /\ (~tzWest \/ accelerationOptions.lumpSumDate = NoDate))
        => /\ \A i \in 1..Len(result.schedule) :
                ~HasLumpSum(result.schedule[i])
           /\ result = ResultWithoutLumpSum

\* the loan is paid off when the loop starts
PaidOffAtStart == loanData.principal <= Epsilon

EmptyResult ==
    /\ result.schedule = <<>>
    /\ result.totalPayments = 0
    /\ result.totalInterest = 0

\* C15: for a principal of at most 0.01 both generators return an empty
\* record list, totalPayments = 0, totalInterest = 0 and a payoffDate equal
\* to the start year-month.
C15_PaidOffLoanReturnsStartMonth ==
    (Returned /\ PaidOffAtStart)
        => EmptyResult /\ result.payoffDate = loanData.startDate

\* the same without the payoffDate
C15_PaidOffLoanReturnsEmptySchedule ==
    (Returned /\ PaidOffAtStart) => EmptyResult

\* C16: calculateSavings returns yearsSaved = floor(monthsSaved / 12) and
\* remainingMonths = monthsSaved mod 12, a number in 0..11, for every
\* monthsSaved, negative ones included, so that
\* yearsSaved * 12 + remainingMonths = monthsSaved.
C16_YearsAndMonthsDecompose ==
    Compared
        => /\ savings.yearsSaved = savings.monthsSaved \div 12
           /\ savings.remainingMonths = savings.monthsSaved % 12
           /\ savings.remainingMonths \in 0..11
           /\ savings.yearsSaved * 12 + savings.remainingMonths
                = savings.monthsSaved

\* the same for the results whose accelerated payoff is not the later one
C16_YearsAndMonthsDecomposeNonNegative ==
    (Compared /\ savings.monthsSaved >= 0)
        => /\ savings.yearsSaved = savings.monthsSaved \div 12
           /\ savings.remainingMonths = savings.monthsSaved % 12
           /\ savings.yearsSaved * 12 + savings.remainingMonths
                = savings.monthsSaved

\* the calendar months from the accelerated payoff period to the standard one
CalendarMonthsBetween ==
    YearMonth(savingsArgs.originalResult.payoffDate)
      - YearMonth(savingsArgs.acceleratedResult.payoffDate)

\* C17: for two payoff year-months at most 480 months apart the monthsSaved
\* of calculateSavings, the day difference divided by 30.44 and rounded, is
\* the number of calendar months between the two payoff periods.
C17_MonthsSavedIsCalendarMonths ==
    (Compared /\ Abs(CalendarMonthsBetween) <= MaxMonthsApart)
        => savings.monthsSaved = CalendarMonthsBetween

\* payoffs MaxMonthsApart months apart, the later one in a leap-year February
C17_Witness ==
    /\ Compared
    /\ CalendarMonthsBetween = MaxMonthsApart
    /\ savingsArgs.originalResult.payoffDate.m = 2
    /\ savingsArgs.originalResult.payoffDate.y % 4 = 0
    /\ savings.monthsSaved = MaxMonthsApart

\* "1 year", "2 years", ...
YearsNamed(n) == IF n = 1 THEN "1 year" ELSE ToString(n) \o " years"

\* "1 month", "3 months", ...
MonthsNamed(n) == IF n = 1 THEN "1 month" ELSE ToString(n) \o " months"

\* the text that names each component that is not zero
ComponentsNamed(years, months) ==
    IF years # 0 /\ months # 0
    THEN YearsNamed(years) \o ", " \o MonthsNamed(months)
    ELSE IF years # 0 THEN YearsNamed(years) ELSE MonthsNamed(months)

\* C18: the timeSavedText of calculateSavings is "No time saved" exactly
\* when yearsSaved and remainingMonths are both zero; otherwise it names each
\* component that is not zero, in the singular for 1 and in the plural for
\* any other value.
C18_TextNamesNonZeroComponents ==
    Compared
        => savings.timeSavedText =
             IF savings.yearsSaved = 0 /\ savings.remainingMonths = 0
             THEN "No time saved"
             ELSE ComponentsNamed(savings.yearsSaved,
                                  savings.remainingMonths)

\* C18 (amended): the text is "No time saved" exactly when monthsSaved <= 0
\* (neither yearsSaved nor remainingMonths is positive); for monthsSaved > 0
\* it names each component that is not zero, in the singular for 1 and in
\* the plural for any other value.
C18_TextNamesPositiveComponents ==
    Compared
        => /\ savings.monthsSaved <= 0
               <=> (savings.yearsSaved <= 0 /\ savings.remainingMonths <= 0)
           /\ savings.timeSavedText =
                IF savings.monthsSaved <= 0
                THEN "No time saved"
                ELSE ComponentsNamed(savings.yearsSaved,
                                     savings.remainingMonths)

\* one year and one month saved: both components in the singular
C18_Witness ==
    /\ Compared
    /\ savings.yearsSaved = 1 /\ savings.remainingMonths = 1
    /\ savings.timeSavedText = "1 year, 1 month"

\* the standard schedule of a loan without interest has returned
ZeroRateReturned == Returned /\ ~Accelerated /\ loanData.annualRate = 0

\* the payment is principal / (termYears * 12), to the unit of the model
PaymentIsPrincipalOverTerm ==
    /\ result.monthlyPayment * (loanData.termYears * 12) <= loanData.principal
    /\ (result.monthlyPayment + 1) * (loanData.termYears * 12)
         > loanData.principal

\* termYears * 12 records without interest that end at a balance of zero
\* (within Epsilon)
FullTermWithoutInterest ==
    /\ Len(result.schedule) = loanData.termYears * 12
    /\ \A i \in 1..Len(result.schedule) : result.schedule[i].interest = 0
    /\ result.totalInterest = 0
    /\ Last(result.schedule).balance <= Epsilon

\* C19: calculateMonthlyPayment(P, 0, T) is P / (T*12), and the standard
\* schedule of a loan without interest has T*12 records, each with interest
\* 0, a totalInterest of 0 and a final balance of 0.
C19_ZeroRateSchedule ==
    ZeroRateReturned => PaymentIsPrincipalOverTerm /\ FullTermWithoutInterest

\* C19 (amended): the same for the loans whose payment P / (T*12) is above
\* 0.01.
C19_ZeroRateScheduleOfPaymentAboveEpsilon ==
    ZeroRateReturned
        => /\ PaymentIsPrincipalOverTerm
           /\ result.monthlyPayment > Epsilon => FullTermWithoutInterest

\* a loan without interest whose principal is not a multiple of its term
C19_Witness ==
    /\ ZeroRateReturned
    /\ result.monthlyPayment > Epsilon
    /\ result.monthlyPayment * (loanData.termYears * 12) < loanData.principal
    /\ Len(result.schedule) = loanData.termYears * 12

\* two completed calls were calls of the same generator with the same
\* arguments
SameCall(c, d) ==
    /\ c.op = d.op
    /\ c.loanData = d.loanData
    /\ c.accelerationOptions = d.accelerationOptions

\* C20: schedule generation carries no state from one call to the next: two
\* calls of the same generator with identical arguments, in any order and
\* with other calls between them, return identical records and totals.
C20_SameArgumentsSameResult ==
    \A i, j \in 1..Len(calls) :
        SameCall(calls[i], calls[j]) => calls[i].result = calls[j].result

\* a schedule with a lump sum was generated twice, with a call of the other
\* generator in between
C20_Witness ==
    /\ Len(calls) >= 3
    /\ calls[1].op = "accelerated"
    /\ calls[1].accelerationOptions.lumpSum > 0
    /\ calls[2].op = "original"
    /\ SameCall(calls[1], calls[3])
    /\ Len(calls[3].result.schedule) >= 2
    /\ calls[3].result = calls[1].result

-----------------------------------------------------------------------------
(* StorageManager.generateShareUrl and parseShareUrl                       *)

\* no generator is running
EngineNotRunning ==
    /\ loanData = [principal |-> 0, annualRate |-> 0, termYears |-> 1,
                   startDate |-> [y |-> 2024, m |-> 1]]
    /\ accelerationOptions = NoAcceleration
    /\ tzWest = FALSE
    /\ op = "none"
    /\ pc = "idle"
    /\ monthlyPayment = 0
    /\ balance = 0
    /\ cumulativeInterest = 0
    /\ paymentNumber = 0
    /\ schedule = <<>>
    /\ dayCounter = 0
    /\ lumpSumApplied = FALSE
    /\ result = NoResult
    /\ calls = <<>>
    /\ savingsArgs = <<>>
    /\ savings = NoSavings

engineVars ==
    <<loanData, accelerationOptions, tzWest, op, pc, monthlyPayment, balance,
      cumulativeInterest, paymentNumber, schedule, dayCounter, lumpSumApplied,
      result, calls, savingsArgs, savings>>

\* Math.round(amount / 1000), amount in cents: a half is rounded upwards
RoundThousands(amount) == (2 * amount + 100000) \div 200000

\* Math.round(amount), amount in cents
RoundDollars(amount) == (2 * amount + 100) \div 200

ToFixedOne(rate) == IF rate = NaN THEN NaN ELSE ((rate + 50) \div 100) * 100

\* annualRate.toFixed(2), read back by parseFloat: the rate, in thousandths,
\* rounded to hundredths
ToFixed2(rate) == IF rate = NaN THEN NaN ELSE ((rate + 5) \div 10) * 10

\* params.set(...) of generateShareUrl; a parameter that is not set is NaN
\* (a number) or NoDate (a year-month), as parseInt and "||" will read it
generateShareUrl(ld, opts) ==
    [p   |-> RoundThousands(ld.principal),
     r   |-> ToFixed2(ld.annualRate),
     t   |-> ld.termYears,
     s   |-> ld.startDate,
     em  |-> IF opts.extraMonthly > 0 THEN RoundDollars(opts.extraMonthly)
             ELSE NaN,
     bw  |-> opts.biweekly,
     ls  |-> IF opts.lumpSum > 0 THEN RoundThousands(opts.lumpSum) ELSE NaN,
     lsd |-> IF opts.lumpSum > 0 THEN opts.lumpSumDate ELSE NoDate,
     ae  |-> IF opts.annualExtra > 0 THEN RoundThousands(opts.annualExtra)
             ELSE NaN,
     aem |-> IF opts.annualExtra > 0 THEN opts.annualExtraMonth ELSE NaN]

\* "parseInt(x) || d": NaN and 0 are both replaced by d
OrDefault(x, d) == IF x = NaN \/ x = 0 THEN d ELSE x

parseShareUrl(params) ==
    IF params = NoParams THEN JsNull
    ELSE [loanData |->
              [principal |-> params.p * 100000,
               annualRate |-> params.r,
               termYears |-> params.t,
               startDate |-> params.s],
          accelerationOptions |->
              [extraMonthly |-> OrDefault(params.em, 0) * 100,
               biweekly |-> params.bw,
               lumpSum |-> OrDefault(params.ls, 0) * 100000,
               lumpSumDate |-> params.lsd,
               annualExtra |-> OrDefault(params.ae, 0) * 100000,
               annualExtraMonth |-> OrDefault(params.aem, 11)]]

\* loans and options to share: at the granularity of the URL and finer
ShareLoans ==
    {[principal |-> pr, annualRate |-> r, termYears |-> 30,
      startDate |-> [y |-> 2024, m |-> 1]] :
        pr \in {Cents(250000), Cents(250500), Cents(1000)},
        r \in {Percent(6), 6250, 6125}}

ShareOptions ==
    {[extraMonthly |-> e, biweekly |-> b, lumpSum |-> l, lumpSumDate |-> d,
      annualExtra |-> a, annualExtraMonth |-> mo] :
        e \in {0, Cents(100), 10050}, b \in BOOLEAN,
        l \in {0, Cents(5000), Cents(5400)},
        d \in {NoDate, [y |-> 2025, m |-> 6]},
        a \in {0, Cents(1000), Cents(1200)}, mo \in 0..11}

ShareInit ==
    /\ EngineNotRunning
    /\ \E ld \in ShareLoans, opts \in ShareOptions :
         state = [InitialState EXCEPT !.currentStep = 3, !.loanData = ld,
                                      !.accelerationOptions = opts]
    /\ elements = EmptyForm
    /\ timers = 0
    /\ location = NoParams
    /\ localStorage = JsNull
    /\ outcome = NoOutcome

\* handleShare: the URL goes to the clipboard
handleShare ==
    /\ outcome = NoOutcome /\ state.loanData # JsNull
    /\ outcome' = [event |-> "share",
                   url |-> generateShareUrl(state.loanData,
                                            state.accelerationOptions)]
    /\ UNCHANGED <<engineVars, state, elements, timers, location,
                   localStorage>>

\* the copied URL is opened
OpenSharedUrl ==
    /\ outcome.event = "share"
    /\ location' = outcome.url
    /\ outcome' = [event |-> "opened"]
    /\ UNCHANGED <<engineVars, state, elements, timers, localStorage>>

\* loadFromUrl: const data = StorageManager.parseShareUrl()
ParseSharedUrl ==
    /\ outcome.event = "opened"
    /\ outcome' = [event |-> "parsed", data |-> parseShareUrl(location)]
    /\ UNCHANGED <<engineVars, state, elements, timers, location,
                   localStorage>>

ShareNext == handleShare \/ OpenSharedUrl \/ ParseSharedUrl

ShareSpec == ShareInit /\ [][ShareNext]_vars

-----------------------------------------------------------------------------
(* MortgageCalculator.validateLoanData, on amounts in cents and rates in   *)
(* thousandths of a percent                                                *)

validateLoanData(data) ==
    LET errors ==
            (IF data.principal = NaN \/ data.principal = 0
                \/ data.principal < Cents(1000)
                \/ data.principal > Cents(10000000)
             THEN {"loanAmount"} ELSE {})
            \cup
            (IF data.annualRate = NaN \/ data.annualRate = 0
                \/ data.annualRate < 100 \/ data.annualRate > Percent(25)
             THEN {"interestRate"} ELSE {})
            \cup
            (IF data.termYears = NaN \/ data.termYears = 0
                \/ data.termYears < 1
             THEN {"loanTerm"} ELSE {})
            \cup
            (IF data.startDate = NoDate THEN {"startDate"} ELSE {})
    IN  [isValid |-> errors = {}, errors |-> errors]

-----------------------------------------------------------------------------
(* The wizard of app.js                                                    *)

\* the loan data and the options handleSubmit gathers from the form
FormLoanData(form) ==
    [principal |-> form.loanAmount, annualRate |-> form.interestRate,
     termYears |-> form.loanTerm, startDate |-> form.startDate]

FormOptions(form) ==
    [extraMonthly |-> IF form.enableExtraMonthly THEN form.extraMonthly ELSE 0,
     biweekly |-> form.biweekly,
     lumpSum |-> IF form.enableLumpSum THEN form.lumpSum ELSE 0,
     lumpSumDate |-> form.lumpSumDate,
     annualExtra |-> IF form.enableAnnualExtra THEN form.annualExtra ELSE 0,
     annualExtraMonth |-> form.annualExtraMonth]

\* the engine's numbers of the page's loan data; a rate or a term that is
\* NaN occurs in the model with a principal of 0 only, where no generator
\* enters its loop and only monthlyPayment depends on them
EngineLoan(ld) ==
    [principal |-> ld.principal * (Unit \div 100),
     annualRate |-> IF ld.annualRate = NaN THEN 0 ELSE ld.annualRate \div 1000,
     termYears |-> IF ld.termYears = NaN THEN 1 ELSE ld.termYears,
     startDate |-> ld.startDate]

EngineOptions(opts) ==
    [extraMonthly |-> opts.extraMonthly * (Unit \div 100),
     biweekly |-> opts.biweekly,
     lumpSum |-> opts.lumpSum * (Unit \div 100),
     lumpSumDate |-> opts.lumpSumDate,
     annualExtra |-> opts.annualExtra * (Unit \div 100),
     annualExtraMonth |-> opts.annualExtraMonth]

EngineResult(ld, res) ==
    IF ld.annualRate = NaN \/ ld.termYears = NaN
    THEN [res EXCEPT !.monthlyPayment = NaN]
    ELSE res

\* validateStep1, with an error element for every field
validateStep1 == validateLoanData(FormLoanData(elements)).isValid

validateCurrentStep == IF state.currentStep = 1 THEN validateStep1 ELSE TRUE

\* "state.originalResult && state.acceleratedResult"
HasResults == state.originalResult # JsNull /\ state.acceleratedResult # JsNull

\* renderChart: every chart type reads the schedules of both results
renderChart(st) ==
    IF st.originalResult # JsNull /\ st.acceleratedResult # JsNull
    THEN "drawn" ELSE "TypeError"

DisplayedSchedule(st) ==
    IF st.showAccelerated THEN st.acceleratedResult.schedule
    ELSE st.originalResult.schedule

rowsPerPage == 12

\* Math.ceil(schedule.length / state.rowsPerPage)
totalPages(st) == (Len(DisplayedSchedule(st)) + rowsPerPage - 1) \div rowsPerPage

\* Math.max(1, Math.min(totalPages, currentPage + direction))
ClampPageFromZero(st, direction) ==
    Max(0, Min(totalPages(st), st.currentPage + direction))

ClampPage(st, direction) ==
    Max(1, Min(totalPages(st), st.currentPage + direction))

\* populateForm(data)
populateForm(form, data) ==
    LET ld   == data.loanData
        opts == data.accelerationOptions
        f1 == [form EXCEPT !.loanAmount = IF ld.principal = NaN THEN 0
                                          ELSE ld.principal,
                           !.interestRate = ld.annualRate,
                           !.loanTerm = ld.termYears,
                           !.startDate = IF ld.startDate # NoDate
                                         THEN ld.startDate ELSE @]
        f2 == IF opts.extraMonthly > 0
              THEN [f1 EXCEPT !.enableExtraMonthly = TRUE,
                              !.extraMonthly = opts.extraMonthly]
              ELSE f1
        f3 == IF opts.biweekly THEN [f2 EXCEPT !.biweekly = TRUE] ELSE f2
        f4 == IF opts.lumpSum > 0
              THEN [f3 EXCEPT !.enableLumpSum = TRUE,
                              !.lumpSum = opts.lumpSum,
                              !.lumpSumDate = IF opts.lumpSumDate # NoDate
                                              THEN opts.lumpSumDate ELSE @]
              ELSE f3
    IN  IF opts.annualExtra > 0
        THEN [f4 EXCEPT !.enableAnnualExtra = TRUE,
                        !.annualExtra = opts.annualExtra,
                        !.annualExtraMonth = opts.annualExtraMonth]
        ELSE f4

\* what the visitor types at step 1 ...
LoanInputs ==
    {[loanAmount |-> a, interestRate |-> r, loanTerm |-> t] :
        a \in {Cents(300), Cents(1000)}, r \in {Percent(6)}, t \in {1, 2}}

\* ... and chooses at step 2
OptionInputs ==
    {[enableExtraMonthly |-> e, extraMonthly |-> IF e THEN Cents(50) ELSE 0,
      biweekly |-> b] : e \in BOOLEAN, b \in BOOLEAN}

\* the pending chart renders the model follows at once
MaxTimers == 1

SharedUrls ==
    {generateShareUrl([principal |-> Cents(1000), annualRate |-> Percent(6),
                       termYears |-> 2, startDate |-> [y |-> 2024, m |-> 1]],
                      [NoAcceleration EXCEPT !.biweekly = TRUE])}

AppInit ==
    /\ EngineNotRunning
    /\ state = InitialState
    /\ elements = EmptyForm
    /\ timers = 0
    /\ location \in {NoParams} \cup SharedUrls
    /\ localStorage = JsNull
    /\ outcome = NoOutcome

Loaded == outcome # NoOutcome

Event(name, chart) == [event |-> name, chart |-> chart]

\* init(): loadFromUrl
loadFromUrl ==
    /\ ~Loaded
    /\ elements' = IF parseShareUrl(location) # JsNull
                   THEN populateForm(elements, parseShareUrl(location))
                   ELSE elements
    /\ outcome' = Event("load", "none")
    /\ UNCHANGED <<engineVars, state, timers, location, localStorage>>

EditLoan ==
    /\ Loaded /\ state.currentStep = 1
    /\ \E in \in LoanInputs :
         elements' = [elements EXCEPT !.loanAmount = in.loanAmount,
                                      !.interestRate = in.interestRate,
                                      !.loanTerm = in.loanTerm]
    /\ outcome' = Event("input", "none")
    /\ UNCHANGED <<engineVars, state, timers, location, localStorage>>

EditOptions ==
    /\ Loaded /\ state.currentStep = 2
    /\ \E in \in OptionInputs :
         elements' = [elements EXCEPT
                         !.enableExtraMonthly = in.enableExtraMonthly,
                         !.extraMonthly = in.extraMonthly,
                         !.biweekly = in.biweekly]
    /\ outcome' = Event("input", "none")
    /\ UNCHANGED <<engineVars, state, timers, location, localStorage>>

\* click on the .btn-next of step 1
ClickNext ==
    /\ Loaded /\ state.currentStep = 1
    /\ state' = IF validateCurrentStep THEN [state EXCEPT !.currentStep = 2]
                ELSE state
    /\ outcome' = Event("next", "none")
    /\ UNCHANGED <<engineVars, elements, timers, location, localStorage>>

\* click on the .btn-prev of step 2
ClickPrev ==
    /\ Loaded /\ state.currentStep = 2
    /\ state' = [state EXCEPT !.currentStep = 1]
    /\ outcome' = Event("prev", "none")
    /\ UNCHANGED <<engineVars, elements, timers, location, localStorage>>

\* the form's submit event: handleSubmit, calculateResults, displayResults,
\* goToStep(3)
handleSubmit ==
    /\ Loaded /\ state.currentStep \in {1, 2} /\ timers < MaxTimers
    /\ LET ld   == FormLoanData(elements)
           opts == FormOptions(elements)
       IN  state' = [state EXCEPT
                !.loanData = ld,
                !.accelerationOptions = opts,
                !.originalResult =
                    EngineResult(ld, generateOriginalSchedule(EngineLoan(ld),
                                                              tzWest)),
                !.acceleratedResult =
                    EngineResult(ld, generateAcceleratedSchedule(
                                         EngineLoan(ld), EngineOptions(opts),
                                         tzWest)),
                !.currentPage = 1,
                !.currentStep = 3]
    /\ timers' = timers + 1
    /\ outcome' = Event("submit", "none")
    /\ UNCHANGED <<engineVars, elements, location, localStorage>>

\* the callback of displayResults' setTimeout: renderActiveChart
RenderTimeout ==
    /\ timers > 0
    /\ timers' = timers - 1
    /\ outcome' = Event("timeout", renderChart(state))
    /\ UNCHANGED <<engineVars, state, elements, location, localStorage>>

\* the debounced resize callback
Resize ==
    /\ Loaded
    /\ outcome' = Event("resize", IF HasResults THEN renderChart(state)
                                  ELSE "none")
    /\ UNCHANGED <<engineVars, state, elements, timers, location,
                   localStorage>>

ClickChartTab ==
    /\ Loaded
    /\ \E chartType \in {"balance", "comparison", "breakdown"} :
         elements' = [elements EXCEPT !.chartTab = chartType]
    /\ outcome' = Event("tab", IF HasResults THEN renderChart(state)
                               ELSE "none")
    /\ UNCHANGED <<engineVars, state, timers, location, localStorage>>

\* changePage(direction); without results it throws before it assigns
changePage ==
    /\ Loaded /\ HasResults
    /\ \E direction \in {0 - 1, 1} :
         state' = [state EXCEPT !.currentPage = ClampPage(state, direction)]
    /\ outcome' = Event("page", "none")
    /\ UNCHANGED <<engineVars, elements, timers, location, localStorage>>

handleToggleSchedule ==
    /\ Loaded
    /\ elements' = [elements EXCEPT !.showAccelerated = ~@]
    /\ state' = [state EXCEPT !.showAccelerated = elements'.showAccelerated,
                              !.currentPage = 1]
    /\ outcome' = Event("toggle", "none")
    /\ UNCHANGED <<engineVars, timers, location, localStorage>>

handleStartOver ==
    /\ Loaded /\ state.currentStep = 3
    /\ elements' = [EmptyForm EXCEPT
                        !.showAccelerated = elements.showAccelerated,
                        !.chartTab = elements.chartTab]
    /\ state' = [state EXCEPT !.loanData = JsNull,
                              !.accelerationOptions = JsNull,
                              !.originalResult = JsNull,
                              !.acceleratedResult = JsNull,
                              !.currentStep = 1]
    /\ outcome' = Event("startOver", "none")
    /\ UNCHANGED <<engineVars, timers, location, localStorage>>

AppNext ==
    \/ loadFromUrl \/ EditLoan \/ EditOptions \/ ClickNext \/ ClickPrev
    \/ handleSubmit \/ RenderTimeout \/ Resize \/ ClickChartTab
    \/ changePage \/ handleToggleSchedule \/ handleStartOver

AppSpec == AppInit /\ [][AppNext]_vars

-----------------------------------------------------------------------------
(* validateLoanData on its own                                             *)

\* loan data at and next to every limit of the validation
ValidationInputs ==
    {[principal |-> a, annualRate |-> r, termYears |-> t, startDate |-> d] :
        a \in {0, Cents(999), Cents(1000), Cents(10000000),
               Cents(10000001)},
        r \in {NaN, 99, 100, Percent(25), Percent(25) + 1},
        t \in {NaN, 1, 30, 40, 41},
        d \in {NoDate, [y |-> 2024, m |-> 1]}}

ValidateInit ==
    /\ EngineNotRunning
    /\ \E data \in ValidationInputs :
         state = [InitialState EXCEPT !.loanData = data]
    /\ elements = EmptyForm
    /\ timers = 0
    /\ location = NoParams
    /\ localStorage = JsNull
    /\ outcome = NoOutcome

Validate ==
    /\ outcome = NoOutcome
    /\ outcome' = [event |-> "validated",
                   validation |-> validateLoanData(state.loanData)]
    /\ UNCHANGED <<engineVars, state, elements, timers, location,
                   localStorage>>

ValidateSpec == ValidateInit /\ [][Validate]_vars

-----------------------------------------------------------------------------
(* StorageManager.save and load                                            *)

\* a number that JSON carries as null
NullNumber == 0 - 2

\* JSON.stringify writes NaN as null
JsonNumber(x) == IF x = NaN THEN NullNumber ELSE x

\* JSON.parse(JSON.stringify(saveData))
JsonRoundTrip(saveData) ==
    [saveData EXCEPT
        !.loanData = IF @ = JsNull THEN @
                     ELSE [@ EXCEPT !.principal = JsonNumber(@),
                                    !.annualRate = JsonNumber(@),
                                    !.termYears = JsonNumber(@)]]

\* what localStorage.setItem does: it stores, or it throws
SetItemOutcomes == {"stored", "QuotaExceededError", "SecurityError"}

\* StorageManager.save(data) with the given behaviour of setItem:
\* <<return value, localStorage afterwards>>
save(data, stored, setItem) ==
    LET saveData == [loanData |-> data.loanData,
                     accelerationOptions |-> data.accelerationOptions,
                     savedAt |-> "now"]
    IN  IF setItem = "stored"
        THEN <<[success |-> TRUE, error |-> ""], JsonRoundTrip(saveData)>>
        ELSE IF setItem = "QuotaExceededError"
        THEN <<[success |-> FALSE,
                error |-> "Storage quota exceeded. Please clear some browser data."],
               stored>>
        ELSE <<[success |-> FALSE, error |-> "Failed to save data."], stored>>

\* StorageManager.load()
load(stored) == stored

\* results on the page: of the untouched form, and of valid forms
SavedInputs ==
    {[loanData |-> ld, accelerationOptions |-> opts] :
        ld \in {FormLoanData(EmptyForm)} \cup ShareLoans,
        opts \in {FormOptions(EmptyForm),
                  [FormOptions(EmptyForm) EXCEPT !.biweekly = TRUE],
                  [FormOptions(EmptyForm) EXCEPT !.extraMonthly = Cents(100)]}}

\* what an earlier visit left in the storage
EarlierVisit ==
    save([loanData |-> FormLoanData([EmptyForm EXCEPT
                                        !.loanAmount = Cents(1000),
                                        !.interestRate = Percent(6),
                                        !.loanTerm = 30]),
          accelerationOptions |-> FormOptions(EmptyForm)],
         JsNull, "stored")[2]

StorageInit ==
    /\ EngineNotRunning
    /\ \E data \in SavedInputs :
         state = [InitialState EXCEPT
                     !.currentStep = 3, !.loanData = data.loanData,
                     !.accelerationOptions = data.accelerationOptions]
    /\ elements = EmptyForm
    /\ timers = 0
    /\ location = NoParams
    /\ localStorage \in {JsNull, EarlierVisit}
    /\ outcome = NoOutcome

handleSave ==
    /\ outcome.event # "save"
    /\ \E setItem \in SetItemOutcomes :
         LET saved == save([loanData |-> state.loanData,
                            accelerationOptions |-> state.accelerationOptions],
                           localStorage, setItem)
         IN  /\ localStorage' = saved[2]
             /\ outcome' = [event |-> "save", result |-> saved[1],
                            before |-> localStorage]
    /\ UNCHANGED <<engineVars, state, elements, timers, location>>

Load ==
    /\ outcome.event # "load"
    /\ outcome' = [event |-> "load", data |-> load(localStorage),
                   afterSave |-> outcome.event = "save"
                                 /\ outcome.result.success]
    /\ UNCHANGED <<engineVars, state, elements, timers, location,
                   localStorage>>

StorageNext == handleSave \/ Load

StorageSpec == StorageInit /\ [][StorageNext]_vars

-----------------------------------------------------------------------------
(* Properties of the share URL                                             *)

Parsed == outcome.event = "parsed"

SharedLoan == state.loanData

SharedOptions == state.accelerationOptions

\* the values the URL can carry: whole thousands of dollars for the
\* principal, the lump sum and the annual extra, whole dollars for the
\* monthly extra, hundredths of a percent for the rate
ShareGranular ==
    /\ SharedLoan.principal % 100000 = 0
    /\ SharedLoan.annualRate % 10 = 0
    /\ SharedOptions.extraMonthly % 100 = 0
    /\ SharedOptions.lumpSum % 100000 = 0
    /\ SharedOptions.annualExtra % 100000 = 0

\* C21 (as stated): parsing a generated share URL returns loan data and
\* acceleration options equal to the originals in every field.
C21_ShareRoundTripIsLossless ==
    Parsed => /\ outcome.data.loanData = SharedLoan
              /\ outcome.data.accelerationOptions = SharedOptions

\* C21 (amended): for values at the granularity of the URL, parsing a
\* generated share URL returns the loan data equal in every field, and the
\* options equal in extraMonthly, biweekly, lumpSum and annualExtra; the
\* lumpSumDate is equal when the lump sum is positive, and annualExtraMonth
\* when the annual extra is positive and the month index is not 0.
C21_ShareRoundTripAtUrlGranularity ==
    (Parsed /\ ShareGranular) =>
        LET back == outcome.data.accelerationOptions IN
        /\ outcome.data.loanData = SharedLoan
        /\ back.extraMonthly = SharedOptions.extraMonthly
        /\ back.biweekly = SharedOptions.biweekly
        /\ back.lumpSum = SharedOptions.lumpSum
        /\ back.annualExtra = SharedOptions.annualExtra
        /\ (SharedOptions.lumpSum > 0
              => back.lumpSumDate = SharedOptions.lumpSumDate)
        /\ (SharedOptions.annualExtra > 0
              /\ SharedOptions.annualExtraMonth # 0
              => back.annualExtraMonth = SharedOptions.annualExtraMonth)

C21_Witness ==
    /\ Parsed /\ ShareGranular
    /\ SharedLoan.annualRate = 6250
    /\ SharedOptions.extraMonthly > 0 /\ SharedOptions.biweekly
    /\ SharedOptions.lumpSum > 0 /\ SharedOptions.lumpSumDate # NoDate
    /\ SharedOptions.annualExtra > 0 /\ SharedOptions.annualExtraMonth = 5
    /\ outcome.data.accelerationOptions = SharedOptions

\* C26: for inputs at the granularity of the share URL with annualExtra > 0,
\* the round trip preserves annualExtraMonth for every month index 0..11,
\* index 0 included.
C26_AnnualExtraMonthRoundTrips ==
    (Parsed /\ ShareGranular /\ SharedOptions.annualExtra > 0) =>
        outcome.data.accelerationOptions.annualExtraMonth
            = SharedOptions.annualExtraMonth

\* the same for the month indexes 1..11
C26_AnnualExtraMonthRoundTripsFromFebruary ==
    (Parsed /\ ShareGranular /\ SharedOptions.annualExtra > 0
       /\ SharedOptions.annualExtraMonth # 0) =>
        outcome.data.accelerationOptions.annualExtraMonth
            = SharedOptions.annualExtraMonth

-----------------------------------------------------------------------------
(* Properties of the wizard                                                *)

Calculated == state.originalResult # JsNull

\* C22: in any sequence of wizard events, schedules are calculated only
\* from loan inputs that pass validateLoanData: while results are held,
\* the loan data they were calculated from is valid.
C22_CalculatedOnlyFromValidInputs ==
    Calculated => validateLoanData(state.loanData).isValid

\* C29: the deferred chart render never runs against cleared results: in
\* every interleaving of submit, timer callback, resize, chart-tab clicks and
\* Start Over, renderChart executes only while both results are non-null.
C29_ChartRendersOnlyWithResults ==
    Loaded => outcome.chart # "TypeError"

\* the same for the renders of the resize callback and of the chart tabs
C29_GuardedRendersHaveResults ==
    (Loaded /\ outcome.event \in {"resize", "tab"})
        => outcome.chart # "TypeError"

\* C30: after any sequence of changePage(+1 or -1), schedule toggles and
\* recalculations, state.currentPage is within 1..max(1, totalPages) of the
\* displayed schedule, and a toggle or a recalculation resets it to 1.
C30_CurrentPageWithinPages ==
    /\ HasResults =>
         /\ state.currentPage >= 1
         /\ state.currentPage <= Max(1, totalPages(state))
    /\ (Loaded /\ outcome.event \in {"toggle", "submit"})
         => state.currentPage = 1

\* the last page of a bi-weekly schedule of more than two pages, reached by
\* changePage
C30_Witness ==
    /\ HasResults /\ Loaded /\ outcome.event = "page"
    /\ state.showAccelerated /\ state.accelerationOptions.biweekly
    /\ totalPages(state) > 2
    /\ state.currentPage = totalPages(state)

-----------------------------------------------------------------------------
(* Properties of validateLoanData                                          *)

Validated == outcome.event = "validated"

\* the ranges of the validation table: $1,000 - $10,000,000,
\* 0.1% - 25%, 1 - 40 years, a start date
AmountInRange ==
    state.loanData.principal >= Cents(1000)
    /\ state.loanData.principal <= Cents(10000000)

RateInRange ==
    state.loanData.annualRate >= 100 /\ state.loanData.annualRate <= Percent(25)

TermInRange ==
    state.loanData.termYears >= 1 /\ state.loanData.termYears <= 40

StartDatePresent == state.loanData.startDate # NoDate

\* C23: validateLoanData returns isValid = TRUE exactly when the amount, the
\* rate and the term are within their ranges and a start date is present,
\* and a value outside its range yields an error entry for its field.
C23_ValidExactlyWithinRanges ==
    Validated =>
        LET validation == outcome.validation IN
        /\ validation.isValid
             = (AmountInRange /\ RateInRange /\ TermInRange
                /\ StartDatePresent)
        /\ ~AmountInRange => "loanAmount" \in validation.errors
        /\ ~RateInRange => "interestRate" \in validation.errors
        /\ ~TermInRange => "loanTerm" \in validation.errors
        /\ ~StartDatePresent => "startDate" \in validation.errors

-----------------------------------------------------------------------------
(* Properties of the storage                                               *)

SaveReturned == outcome.event = "save"

LoadedAfterSave == outcome.event = "load" /\ outcome.afterSave

SaveReturnsResult ==
    SaveReturned =>
        \/ outcome.result.success
        \/ outcome.result.error # "" /\ localStorage = outcome.before

LoadReturnsSaved ==
    LoadedAfterSave =>
        /\ outcome.data.loanData = state.loanData
        /\ outcome.data.accelerationOptions = state.accelerationOptions

\* C24: save returns a result and never throws; when the write fails the
\* result is {success: false, error} and the stored data is unchanged;
\* after a successful save, load() returns the same loanData and
\* accelerationOptions.
C24_SaveNeverThrowsAndLoadReturnsSaved ==
    SaveReturnsResult /\ LoadReturnsSaved

\* the same for loan data whose numbers are numbers (not NaN)
C24_SaveAndLoadOfNumbers ==
    /\ SaveReturnsResult
    /\ (state.loanData.annualRate # NaN /\ state.loanData.termYears # NaN)
          => LoadReturnsSaved

-----------------------------------------------------------------------------
(* Properties of the accelerated generator without a strategy              *)

NoActiveStrategy ==
    /\ accelerationOptions.extraMonthly = 0
    /\ ~accelerationOptions.biweekly
    /\ accelerationOptions.lumpSum = 0
    /\ accelerationOptions.annualExtra = 0

\* the standard schedule of the compared pair ends paid off
CorrectlyAmortizing ==
    LET o == savingsArgs.originalResult IN
    o.schedule # <<>> => Last(o.schedule).balance <= Epsilon

SameAmounts(r1, r2) ==
    /\ r1.payment = r2.payment
    /\ r1.principal = r2.principal
    /\ r1.interest = r2.interest
    /\ r1.balance = r2.balance
    /\ r1.cumulativeInterest = r2.cumulativeInterest

\* C25: for every correctly amortizing loan the accelerated generator
\* without an active strategy produces, record by record, the payment,
\* principal, interest, balance and cumulativeInterest of the standard
\* generator, and the same totals and payoff date, so that calculateSavings
\* reports monthsSaved = 0 and interestSaved = 0.
C25_NoStrategyEqualsStandard ==
    (Compared /\ NoActiveStrategy /\ CorrectlyAmortizing) =>
        LET o == savingsArgs.originalResult
            a == savingsArgs.acceleratedResult
        IN  /\ Len(a.schedule) = Len(o.schedule)
            /\ \A i \in 1..Len(o.schedule) :
                 SameAmounts(a.schedule[i], o.schedule[i])
            /\ a.totalInterest = o.totalInterest
            /\ a.totalPayments = o.totalPayments
            /\ a.payoffDate = o.payoffDate
            /\ savings.monthsSaved = 0
            /\ savings.interestSaved = 0

\* a pair of schedules of twelve records of a loan that bears interest,
\* compared without a strategy
C25_Witness ==
    /\ Compared /\ NoActiveStrategy /\ CorrectlyAmortizing
    /\ loanData.annualRate > 0
    /\ Len(savingsArgs.originalResult.schedule) = 12
    /\ Len(savingsArgs.acceleratedResult.schedule) = 12
    /\ savingsArgs.acceleratedResult.totalInterest > 0
    /\ savings.interestSaved = 0

-----------------------------------------------------------------------------
(* Properties of the principal applied by the accelerated generator        *)

\* the principal and extra payments of the first k records
RECURSIVE SumApplied(_, _)
SumApplied(sched, k) ==
    IF k = 0 THEN 0
    ELSE SumApplied(sched, k - 1) + sched[k].principal + sched[k].extraPayment

\* the loan of the call is not one whose payment is absorbed by its interest
CorrectlyAmortizingCall == loanData \notin AbsorbingLoans

AcceleratedPaidOff == Accelerated /\ pc = "done" /\ balance <= Epsilon

\* C27: for every accelerated schedule that ends paid off, the sum over its
\* records of principal + extraPayment equals the loan principal within
\* epsilon.
C27_AppliedPrincipalSumsToLoan ==
    AcceleratedPaidOff =>
        Abs(SumApplied(schedule, Len(schedule)) - loanData.principal)
            <= Epsilon

\* a paid-off accelerated schedule of several records with extra payments,
\* the last one truncated to the remaining balance
C27_Witness ==
    /\ AcceleratedPaidOff /\ Len(schedule) > 1
    /\ schedule[1].extraPayment > 0
    /\ Last(schedule).extraPayment > 0
    /\ Last(schedule).principal + Last(schedule).extraPayment
         = PreviousBalance(Len(schedule))
    /\ Abs(SumApplied(schedule, Len(schedule)) - loanData.principal)
         <= Epsilon

\* C28: in every record of every accelerated schedule, the final truncated
\* record included, the recorded principal is not negative and the
\* extraPayment does not exceed the balance before the payment.
C28_PrincipalNonNegativeExtraWithinBalance ==
    Accelerated =>
        \A i \in 1..Len(schedule) :
            /\ schedule[i].principal >= 0
            /\ schedule[i].extraPayment <= PreviousBalance(i)

\* the same for every record that is not truncated to the remaining balance
C28_UntruncatedRecords ==
    Accelerated =>
        \A i \in 1..Len(schedule) :
            (CorrectlyAmortizingCall /\ schedule[i].balance > 0) =>
                /\ schedule[i].principal >= 0
                /\ schedule[i].extraPayment <= PreviousBalance(i)

====
